---- MODULE Spec2Model ----
(***************************************************************************)
(* Model of the `ldap` interface library (lib/charms/glauth_k8s/v0/ldap.py) *)
(* - LdapProvider, LdapRequirer, Secret, the payload schema - together with *)
(* the part of the Juju/ops host the library calls: relation application    *)
(* databags, the secret store, leadership and the relation lifecycle; and   *)
(* of the charm that embeds the provider (src/charm.py, src/utils.py).      *)
(***************************************************************************)
EXTENDS Integers, Sequences, FiniteSets, TLC

VARIABLES
    provRel,      \* provider's view of each ldap relation: "none" | "live" | "dead"
    reqRel,       \* requirer's view of each ldap relation
    data,         \* relation.data[app]: data[rid][app] is an application databag
    secrets,      \* the host's secret store: set of [uri, label, content, grants]
    nextUri,      \* number of the next secret the host creates
    tracked,      \* requirer as secret observer: uri -> content of the tracked revision
    reqIdentity,  \* LdapRequirer._data, given at construction
    published,    \* history: password the leader last published to each relation id
    ops,          \* number of operations run so far
    last          \* the last operation: [op, rid, leader, arg, err, trace, result]

vars == <<provRel, reqRel, data, secrets, nextUri, tracked,
          reqIdentity, published, ops, last>>

----------------------------------------------------------------------------
(* Bounds *)
MaxRel == 2       \* relation ids 1..MaxRel
MaxUri == 2       \* secrets the host creates in one run
MaxOps == 4       \* operations in one run

RelIds == 1..MaxRel
None == "<None>"  \* Python's None
Apps == {"provider", "requirer"}
Passwords == {"secret1", "secret2"}

EmptyBag == [k \in {} |-> ""]

----------------------------------------------------------------------------
(* Constants of the library *)

\* BIND_ACCOUNT_SECRET_LABEL_TEMPLATE.substitute(relation_id=rid)
BIND_ACCOUNT_SECRET_LABEL(rid) == "relation-" \o ToString(rid) \o "-bind-account-secret"

\* the id the host gives the n-th secret it creates
SecretUri(n) == "secret:" \o ToString(n)

----------------------------------------------------------------------------
(* Payload schema *)

\* LdapProviderBaseData(url, base_dn, starttls)
LdapProviderBaseData(url, base_dn, starttls) ==
    [cls |-> "LdapProviderBaseData", url |-> url, base_dn |-> base_dn, starttls |-> starttls]

\* LdapProviderData(url, base_dn, starttls, bind_dn, bind_password, bind_password_secret, auth_method)
LdapProviderData(url, base_dn, starttls, bind_dn, bind_password, bind_password_secret, auth_method) ==
    [cls |-> "LdapProviderData", url |-> url, base_dn |-> base_dn, starttls |-> starttls,
     bind_dn |-> bind_dn, bind_password |-> bind_password,
     bind_password_secret |-> bind_password_secret, auth_method |-> auth_method]

\* field_serializer("starttls"): str(starttls)
serialize_bool(starttls) == IF starttls THEN "True" ELSE "False"

\* str.casefold on the spellings of the two literals
casefold(v) ==
    IF v \in {"true", "True", "TRUE"} THEN "true"
    ELSE IF v \in {"false", "False", "FALSE"} THEN "false" ELSE v

\* field_validator("starttls", mode="before") on a str read from a databag:
\* v.casefold() == "true" (a bool given to the constructor passes unchanged)
deserialize_bool(v) == casefold(v) = "true"

\* faulty variant: the serializer does not exclude bind_password
model_dump_with_password(p) ==
    IF p.cls = "LdapProviderBaseData"
    THEN [url |-> p.url, base_dn |-> p.base_dn, starttls |-> serialize_bool(p.starttls)]
    ELSE [url |-> p.url, base_dn |-> p.base_dn, starttls |-> serialize_bool(p.starttls),
          bind_dn |-> p.bind_dn, bind_password |-> p.bind_password,
          bind_password_secret |-> p.bind_password_secret,
          auth_method |-> p.auth_method]

\* data.model_dump(): bind_password is Field(exclude=True)
model_dump(p) ==
    IF p.cls = "LdapProviderBaseData"
    THEN [url |-> p.url, base_dn |-> p.base_dn, starttls |-> serialize_bool(p.starttls)]
    ELSE [url |-> p.url, base_dn |-> p.base_dn, starttls |-> serialize_bool(p.starttls),
          bind_dn |-> p.bind_dn, bind_password_secret |-> p.bind_password_secret,
          auth_method |-> p.auth_method]

\* the payloads the embedding charm publishes
BasePayloads == { LdapProviderBaseData("ldap://x", "dc=x", FALSE) }
CredPayloads == { LdapProviderData("ldap://x", "dc=x", TRUE, "cn=admin", pw, None, "simple") :
                    pw \in Passwords }
Payloads == BasePayloads \cup CredPayloads

NoRel == 0                      \* relation_id=None
NoPayload == [cls |-> "none"]   \* an operation that takes no payload
NoResult == [kind |-> "none"]   \* an operation that returns nothing (or raised)

\* one call made on the host by a handler
Call(name, ref, rid) == [call |-> name, ref |-> ref, rid |-> rid]

----------------------------------------------------------------------------
(* Host: relation application databags *)

\* the live relations of the integration, as model.relations[name] lists them
Live(view) == { r \in RelIds : view[r] = "live" }

\* relation.data[app].update(d): the host stores strings and drops a key set to ""
DatabagUpdate(bag, d) ==
    LET dropped == { k \in DOMAIN d : d[k] = "" }
        keys == (DOMAIN bag \cup DOMAIN d) \ dropped
    IN [k \in keys |-> IF k \in DOMAIN d THEN d[k] ELSE bag[k]]

\* faulty variant: the decorator lets every unit through
leader_unit_always(isLeader) == TRUE

\* leader_unit: the wrapped function runs only when obj.unit.is_leader()
leader_unit(isLeader) == isLeader

\* data = {k: str(v) if v else "" for k, v in data.items()}
Stringify(d) == [k \in DOMAIN d |-> IF d[k] = None \/ d[k] = "" THEN "" ELSE d[k]]

\* _update_relation_app_databag(ldap, relation, data): the databag of ldap.app
\* on the relation after the call
_update_relation_app_databag(isLeader, bag, d) ==
    IF ~leader_unit(isLeader) THEN bag
    ELSE DatabagUpdate(bag, Stringify(d))

----------------------------------------------------------------------------
(* Host: secret store *)

\* model.get_secret(label=label): the secrets found under the label
ByLabel(store, label) == { s \in store : s.label = label }

\* model.get_secret(id=uri)
ById(store, uri) == { s \in store : s.uri = uri }

\* app.add_secret(label=label, content=content)
add_secret(store, n, label, content) ==
    store \cup { [uri |-> SecretUri(n), label |-> label, content |-> content, grants |-> {}] }

\* secret.set_content(content)
set_content(store, s, content) ==
    (store \ {s}) \cup { [s EXCEPT !.content = content] }

\* secret.grant(relation)
grant(store, uri, rid) ==
    { IF s.uri = uri THEN [s EXCEPT !.grants = @ \cup {rid}] ELSE s : s \in store }

\* faulty variant: the revisions are left in the store
remove_all_revisions_keep(store, uri) == store

\* secret.remove_all_revisions()
remove_all_revisions(store, uri) == { s \in store : s.uri # uri }

\* faulty variant: create_or_update always adds a secret
create_or_update_add(store, n, label, content) ==
    [store |-> add_secret(store, n, label, content), next |-> n + 1,
     uri |-> SecretUri(n), trace |-> << Call("add_secret", label, 0) >>]

\* Secret.create_or_update(charm, label, content): the store after the call,
\* the uri of the returned Secret and the host calls made
create_or_update(store, n, label, content) ==
    IF ByLabel(store, label) # {}
    THEN LET s == CHOOSE x \in ByLabel(store, label) : TRUE
         IN [store |-> set_content(store, s, content), next |-> n,
             uri |-> s.uri, trace |-> << Call("set_content", s.uri, 0) >>]
    ELSE [store |-> add_secret(store, n, label, content), next |-> n + 1,
          uri |-> SecretUri(n), trace |-> << Call("add_secret", label, 0) >>]

----------------------------------------------------------------------------
(* Operations *)

\* one more operation of the run
Step == ops < MaxOps /\ ops' = ops + 1

\* the record of an operation that has completed
\* (leader: what unit.is_leader() answered during the operation)
Done(op, rid, leader, arg, err, trace, result) ==
    [op |-> op, rid |-> rid, leader |-> leader, arg |-> arg, err |-> err,
     trace |-> trace, result |-> result]

\* a set of relation ids in the order model.relations lists them
RECURSIVE InOrder(_)
InOrder(S) ==
    IF S = {} THEN << >>
    ELSE LET m == CHOOSE x \in S : \A y \in S : x <= y
         IN << m >> \o InOrder(S \ {m})

\* faulty variant: the databag of the other application is written
WriteAll_other(isLeader, app, targets, d) ==
    [r \in RelIds |->
        IF r \in targets
        THEN LET other == CHOOSE a \in Apps : a # app
             IN [data[r] EXCEPT ![other] = _update_relation_app_databag(isLeader, @, d)]
        ELSE data[r]]

\* for relation in relations: _update_relation_app_databag(self.charm, relation, d)
\* (app is ldap.app, the application of the charm that writes)
WriteAll(isLeader, app, targets, d) ==
    [r \in RelIds |->
        IF r \in targets
        THEN [data[r] EXCEPT ![app] = _update_relation_app_databag(isLeader, @, d)]
        ELSE data[r]]

\* the relation.data[app].update calls of WriteAll
WriteCalls(isLeader, targets) ==
    IF leader_unit(isLeader)
    THEN [i \in 1..Cardinality(targets) |-> Call("update", "", InOrder(targets)[i])]
    ELSE << >>

\* faulty variant: the databag is written and the secret is granted afterwards
GrantAndWrite_late(isLeader, cu, rid, targets, p) ==
    [store |-> grant(cu.store, cu.uri, rid),
     data |-> WriteAll(isLeader, "provider", targets,
                       model_dump([p EXCEPT !.bind_password_secret = cu.uri])),
     trace |-> WriteCalls(isLeader, targets) \o << Call("grant", cu.uri, rid) >>]

\* secret.grant(relations[0]); data.bind_password_secret = secret.uri; then
\* the loop over the relations
GrantAndWrite(isLeader, cu, rid, targets, p) ==
    [store |-> grant(cu.store, cu.uri, rid),
     data |-> WriteAll(isLeader, "provider", targets,
                       model_dump([p EXCEPT !.bind_password_secret = cu.uri])),
     trace |-> << Call("grant", cu.uri, rid) >> \o WriteCalls(isLeader, targets)]

\* LdapProvider.update_relations_app_data(data, relation_id): isLeader is what
\* unit.is_leader() answers during the call, hostOk the host's answer when a
\* unit that is not the leader changes an application secret (the testing
\* harness performs the change, Juju refuses it); caller = [op, arg, pre] is
\* the operation that makes the call, what it was given and the calls it
\* made before this one
update_relations_app_data(p, rid, isLeader, hostOk, caller) ==
    LET relations == Live(provRel)
        fin(err, trace) == last' = Done(caller.op, rid, isLeader, caller.arg, err,
                                        caller.pre \o trace, NoResult)
        cu == create_or_update(secrets, nextUri, BIND_ACCOUNT_SECRET_LABEL(rid),
                               [password |-> p.bind_password])
        targets == { r \in relations : r = rid }
        gw == GrantAndWrite(isLeader, cu, rid, targets, p)
    IN
    IF relations = {}
    THEN /\ UNCHANGED <<secrets, nextUri, data>>
         /\ fin("", << >>)
    ELSE IF rid # NoRel /\ p.cls = "LdapProviderData"
    THEN IF ~isLeader /\ ~hostOk
         THEN /\ UNCHANGED <<secrets, nextUri, data>>
              /\ fin("ModelError", << >>)
         ELSE IF targets = {}
         THEN \* secret.grant(relations[0]) on an empty list
              /\ cu.next <= MaxUri + 1
              /\ secrets' = cu.store
              /\ nextUri' = cu.next
              /\ UNCHANGED data
              /\ fin("IndexError", cu.trace)
         ELSE /\ cu.next <= MaxUri + 1
              /\ secrets' = gw.store
              /\ nextUri' = cu.next
              /\ data' = gw.data
              /\ fin("", cu.trace \o gw.trace)
    ELSE /\ UNCHANGED <<secrets, nextUri>>
         /\ data' = WriteAll(isLeader, "provider", relations, model_dump(p))
         /\ fin("", WriteCalls(isLeader, relations))

\* the embedding charm publishes a payload
Publish(p, rid, isLeader) ==
    /\ Step
    /\ \E hostOk \in (IF isLeader THEN {TRUE} ELSE BOOLEAN) :
           update_relations_app_data(p, rid, isLeader, hostOk,
                                     [op |-> "publish", arg |-> p, pre |-> << >>])
    /\ published' = IF isLeader /\ p.cls = "LdapProviderData" /\ rid \in Live(provRel)
                    THEN [published EXCEPT ![rid] = p.bind_password]
                    ELSE published
    /\ UNCHANGED <<provRel, reqRel, tracked, reqIdentity>>

----------------------------------------------------------------------------
(* Provider: relation lifecycle *)

\* faulty variant: the notification is emitted twice
ldap_requested_emit_twice(r) ==
    << Call("emit", "ldap_requested", r), Call("emit", "ldap_requested", r) >>

\* self.on.ldap_requested.emit(event.relation)
ldap_requested_emit(r) == << Call("emit", "ldap_requested", r) >>

\* LdapProvider._on_relation_changed: emits ldap_requested on the leader
_on_relation_changed(r, isLeader) ==
    /\ Step
    /\ provRel[r] = "live"
    /\ last' = Done("provider_changed", r, isLeader, NoPayload, "",
                    IF leader_unit(isLeader) THEN ldap_requested_emit(r) ELSE << >>,
                    NoResult)
    /\ UNCHANGED <<provRel, reqRel, data, secrets, nextUri, tracked,
                   reqIdentity, published>>

\* Secret.load(charm, label) with content=None, then secret.remove(): the
\* secret found under the label is removed; when none is found load calls
\* add_secret(label=label, content=None), which the host rejects
LoadAndRemove(store, label) ==
    IF ByLabel(store, label) # {}
    THEN LET s == CHOOSE x \in ByLabel(store, label) : TRUE
         IN [store |-> remove_all_revisions(store, s.uri), err |-> "",
             trace |-> << Call("get_secret", label, 0),
                          Call("remove_all_revisions", s.uri, 0) >>]
    ELSE [store |-> store, err |-> "InvalidSecretContent",
          trace |-> << Call("get_secret", label, 0), Call("add_secret", label, 0) >>]

\* the host forgets which revision of a removed secret an observer tracked
Forget(t, store) == [u \in { x \in DOMAIN t : ById(store, x) # {} } |-> t[u]]

\* LdapProvider._on_relation_broken
_on_relation_broken(r, isLeader) ==
    LET lr == LoadAndRemove(secrets, BIND_ACCOUNT_SECRET_LABEL(r))
    IN
    /\ Step
    /\ provRel[r] = "live"
    /\ provRel' = [provRel EXCEPT ![r] = "dead"]
    /\ IF leader_unit(isLeader)
       THEN /\ secrets' = lr.store
            /\ tracked' = Forget(tracked, lr.store)
            /\ last' = Done("provider_broken", r, isLeader, NoPayload, lr.err,
                            lr.trace, NoResult)
       ELSE /\ UNCHANGED <<secrets, tracked>>
            /\ last' = Done("provider_broken", r, isLeader, NoPayload, "", << >>, NoResult)
    /\ UNCHANGED <<reqRel, data, nextUri, reqIdentity, published>>

----------------------------------------------------------------------------
(* Requirer: relation lifecycle *)

\* LdapRequirerData(user, group)
LdapRequirerData(user, group) == [cls |-> "LdapRequirerData", user |-> user, group |-> group]

AppName == "requirer-app"    \* self.app.name
ModelName == "test-model"    \* self.model.name
Identities == { NoPayload, LdapRequirerData("user", "group") }

\* faulty variant: the identity given at construction is ignored
identity_ignored(d) == [user |-> AppName, group |-> ModelName]

\* user = self._data.user if self._data else self.app.name
\* group = self._data.group if self._data else self.model.name
identity(d) ==
    [user |-> IF d # NoPayload THEN d.user ELSE AppName,
     group |-> IF d # NoPayload THEN d.group ELSE ModelName]

\* LdapRequirer._on_ldap_relation_created: the host creates relation r and the
\* requirer unit handles relation_created
_on_ldap_relation_created(r, isLeader) ==
    /\ Step
    /\ provRel[r] = "none" /\ reqRel[r] = "none"
    /\ provRel' = [provRel EXCEPT ![r] = "live"]
    /\ reqRel' = [reqRel EXCEPT ![r] = "live"]
    /\ data' = WriteAll(isLeader, "requirer", {r}, identity(reqIdentity))
    /\ last' = Done("requirer_created", r, isLeader, NoPayload, "",
                    WriteCalls(isLeader, {r}), NoResult)
    /\ UNCHANGED <<secrets, nextUri, tracked, reqIdentity, published>>

\* faulty variant: ldap_ready is emitted whatever the databag holds
ldap_ready_emit_always(bag, r) == << Call("emit", "ldap_ready", r) >>

\* if not event.relation.data.get(provider_app): return
\* self.on.ldap_ready.emit(event.relation)
ldap_ready_emit(bag, r) ==
    IF bag # EmptyBag THEN << Call("emit", "ldap_ready", r) >> ELSE << >>

\* LdapRequirer._on_ldap_relation_changed: emits ldap_ready when the provider's
\* databag is not empty
_on_ldap_relation_changed(r) ==
    /\ Step
    /\ reqRel[r] = "live"
    /\ last' = Done("requirer_changed", r, FALSE, NoPayload, "",
                    ldap_ready_emit(data[r]["provider"], r), NoResult)
    /\ UNCHANGED <<provRel, reqRel, data, secrets, nextUri, tracked,
                   reqIdentity, published>>

\* LdapRequirer._on_ldap_relation_broken: emits ldap_unavailable
_on_ldap_relation_broken(r) ==
    /\ Step
    /\ reqRel[r] = "live"
    /\ reqRel' = [reqRel EXCEPT ![r] = "dead"]
    /\ last' = Done("requirer_broken", r, FALSE, NoPayload, "",
                    << Call("emit", "ldap_unavailable", r) >>, NoResult)
    /\ UNCHANGED <<provRel, data, secrets, nextUri, tracked,
                   reqIdentity, published>>

----------------------------------------------------------------------------
(* Requirer: fetch *)

ReturnedNone == [kind |-> "None"]
Returned(v) == [kind |-> "payload", value |-> v]

\* model.get_relation(name, relation_id): with an id, the live relation of that
\* id, or else a dead Relation object whose app is None; without an id, None
\* for no relation, the relation when there is one, TooManyRelatedAppsError
\* for more
get_relation(view, rid) ==
    IF rid # NoRel
    THEN IF rid \in Live(view) THEN [kind |-> "live", id |-> rid]
                               ELSE [kind |-> "dead", id |-> rid]
    ELSE IF Live(view) = {} THEN [kind |-> "none", id |-> NoRel]
    ELSE IF Cardinality(Live(view)) = 1
         THEN [kind |-> "live", id |-> CHOOSE r \in Live(view) : TRUE]
         ELSE [kind |-> "error", id |-> NoRel]

\* validate_ldap_url: v.startswith("ldap://")
validate_ldap_url(v) == Len(v) >= 7 /\ SubSeq(v, 1, 7) = "ldap://"

BaseRequiredFields == {"url", "base_dn", "starttls"}
RequiredFields == {"url", "base_dn", "starttls", "bind_dn", "bind_password", "auth_method"}

\* LdapProviderBaseData(**d): the three fields are required; url is validated
\* first, and a url without the prefix reaches `raise ValidationError("...")`:
\* pydantic's ValidationError has no such constructor, so a TypeError comes
\* out of the validator and of the construction
LdapProviderBaseDataFromDict(d) ==
    IF "url" \in DOMAIN d /\ ~validate_ldap_url(d["url"])
    THEN [err |-> "TypeError", value |-> NoPayload]
    ELSE IF ~(BaseRequiredFields \subseteq DOMAIN d)
    THEN [err |-> "ValidationError", value |-> NoPayload]
    ELSE [err |-> "",
          value |-> LdapProviderBaseData(d["url"], d["base_dn"],
                                         deserialize_bool(d["starttls"]))]

\* LdapProviderData(**d): the inherited fields and validators, then the fields
\* without a default are required, auth_method is Literal["simple"], unknown
\* keys are ignored
LdapProviderDataFromDict(d) ==
    IF "url" \in DOMAIN d /\ ~validate_ldap_url(d["url"])
    THEN [err |-> "TypeError", value |-> NoPayload]
    ELSE IF ~(RequiredFields \subseteq DOMAIN d) \/ d["auth_method"] # "simple"
    THEN [err |-> "ValidationError", value |-> NoPayload]
    ELSE [err |-> "",
          value |-> LdapProviderData(d["url"], d["base_dn"], deserialize_bool(d["starttls"]),
                                     d["bind_dn"], d["bind_password"],
                                     IF "bind_password_secret" \in DOMAIN d
                                     THEN d["bind_password_secret"] ELSE None,
                                     d["auth_method"])]

\* secret.get_content() by the requirer, without refresh=True: the content of
\* the revision this observer tracks, which is the latest one at its first read
get_content(s) == IF s.uri \in DOMAIN tracked THEN tracked[s.uri] ELSE s.content

\* LdapRequirer.consume_ldap_relation_data(relation_id)
consume_ldap_relation_data(rid) ==
    LET rel == get_relation(reqRel, rid)
        bag == data[rel.id]["provider"]
        uri == bag["bind_password_secret"]
        \* model.get_secret(id=uri): the requirer sees a secret granted to the relation
        found == { s \in ById(secrets, uri) : rel.id \in s.grants }
        s == CHOOSE x \in found : TRUE
        content == get_content(s)
        withPw == [k \in DOMAIN bag \cup {"bind_password"} |->
                     IF k = "bind_password" THEN content.password ELSE bag[k]]
        fin(err, res) == last' = Done("fetch", rid, FALSE, NoPayload, err, << >>, res)
    IN
    IF rel.kind = "error" THEN fin("TooManyRelatedAppsError", NoResult) /\ UNCHANGED tracked
    ELSE IF rel.kind = "none" THEN fin("", ReturnedNone) /\ UNCHANGED tracked
    ELSE IF rel.kind = "dead"
    THEN \* relation.data.get(None) is None, and dict(None) raises
         fin("TypeError", NoResult) /\ UNCHANGED tracked
    ELSE IF "bind_password_secret" \in DOMAIN bag
    THEN IF found = {}
         THEN fin("SecretNotFoundError", NoResult) /\ UNCHANGED tracked
         ELSE /\ tracked' = [u \in DOMAIN tracked \cup {uri} |->
                               IF u = uri THEN content ELSE tracked[u]]
              /\ LET v == LdapProviderDataFromDict(withPw)
                 IN fin(v.err, IF v.err = "" THEN Returned(v.value) ELSE NoResult)
    ELSE /\ UNCHANGED tracked
         /\ IF bag = EmptyBag THEN fin("", ReturnedNone)
            ELSE LET v == LdapProviderDataFromDict(bag)
                 IN fin(v.err, IF v.err = "" THEN Returned(v.value) ELSE NoResult)

\* the embedding requirer charm fetches
Fetch(rid) ==
    /\ Step
    /\ consume_ldap_relation_data(rid)
    /\ UNCHANGED <<provRel, reqRel, data, secrets, nextUri, reqIdentity, published>>

----------------------------------------------------------------------------
(* Specification *)

Init ==
    /\ provRel = [r \in RelIds |-> "none"]
    /\ reqRel = [r \in RelIds |-> "none"]
    /\ data = [r \in RelIds |-> [a \in Apps |-> EmptyBag]]
    /\ secrets = {}
    /\ nextUri = 1
    /\ tracked = [u \in {} |-> [password |-> ""]]
    /\ reqIdentity \in Identities
    /\ published = [r \in RelIds |-> ""]
    /\ ops = 0
    /\ last = Done("init", NoRel, FALSE, NoPayload, "", << >>, NoResult)

Next ==
    \/ \E p \in Payloads, rid \in RelIds \cup {NoRel}, isLeader \in BOOLEAN :
           Publish(p, rid, isLeader)
    \/ \E r \in RelIds, isLeader \in BOOLEAN : _on_relation_changed(r, isLeader)
    \/ \E r \in RelIds, isLeader \in BOOLEAN : _on_relation_broken(r, isLeader)
    \/ \E r \in RelIds, isLeader \in BOOLEAN : _on_ldap_relation_created(r, isLeader)
    \/ \E r \in RelIds : _on_ldap_relation_changed(r)
    \/ \E r \in RelIds : _on_ldap_relation_broken(r)
    \/ \E rid \in RelIds \cup {NoRel} : Fetch(rid)

Spec == Init /\ [][Next]_vars

----------------------------------------------------------------------------
(* The payload schema on its own: construction and the way through storage *)

\* urls given to the constructors
Urls == { "ldap://x", "ldap://host/path", "ldaps://x", "http://host/path",
          "ldap:/x", "LDAP://x", "xldap://x", "" }

\* keyword arguments given to a constructor, in the string form a databag
\* holds; a missing key is an argument that was not given
BaseKwargs ==
    { [url |-> u, base_dn |-> b, starttls |-> t] :
        u \in Urls, b \in {"dc=x", ""}, t \in {"True", "False", "true"} }
DataKwargs ==
    { [url |-> u, base_dn |-> "dc=x", starttls |-> t, bind_dn |-> "cn=admin",
       bind_password |-> "secret1", auth_method |-> a] :
        u \in Urls, t \in {"True", "False"}, a \in {"simple", "anonymous"} }
    \cup
    { [url |-> u, base_dn |-> "dc=x", starttls |-> "True", bind_dn |-> "cn=admin",
       auth_method |-> "simple"] : u \in Urls }

\* the payloads that pass validation
ValidPayloads ==
    { LdapProviderBaseData(u, b, t) :
        u \in {"ldap://x", "ldap://host/path"}, b \in {"dc=x", "dc=y"}, t \in BOOLEAN }
    \cup
    { LdapProviderData(u, "dc=x", t, "cn=admin", pw, None, "simple") :
        u \in {"ldap://x", "ldap://host/path"}, t \in BOOLEAN, pw \in Passwords }

\* cls(**kw)
FromDict(cls, kw) ==
    IF cls = "LdapProviderBaseData" THEN LdapProviderBaseDataFromDict(kw)
                                    ELSE LdapProviderDataFromDict(kw)

\* a payload is constructed from keyword arguments
Construct(cls, kw) ==
    LET v == FromDict(cls, kw)
    IN
    /\ Step
    /\ last' = Done("construct", NoRel, FALSE, [cls |-> cls, kw |-> kw], v.err, << >>,
                    IF v.err = "" THEN Returned(v.value) ELSE NoResult)
    /\ UNCHANGED <<provRel, reqRel, data, secrets, nextUri, tracked,
                   reqIdentity, published>>

\* a payload is dumped, written to a databag in the string form of
\* _update_relation_app_databag, read back and validated as its class
RoundTrip(p) ==
    LET stored == _update_relation_app_databag(TRUE, EmptyBag, model_dump(p))
        v == FromDict(p.cls, stored)
    IN
    /\ Step
    /\ last' = Done("round_trip", NoRel, FALSE, p, v.err, << >>,
                    IF v.err = "" THEN Returned(v.value) ELSE NoResult)
    /\ UNCHANGED <<provRel, reqRel, data, secrets, nextUri, tracked,
                   reqIdentity, published>>

SchemaNext ==
    \/ \E kw \in BaseKwargs : Construct("LdapProviderBaseData", kw)
    \/ \E kw \in DataKwargs : Construct("LdapProviderData", kw)
    \/ \E p \in ValidPayloads : RoundTrip(p)

SchemaSpec == Init /\ [][SchemaNext]_vars

----------------------------------------------------------------------------
(* The charm: LdapIntegratorCharm (src/charm.py) and its conditions (src/utils.py) *)

LDAP_INTEGRATION_NAME == "ldap"

\* a configuration value: charm.config.get(k) is None for an option without a
\* value, a str or a bool otherwise
Unset == [tag |-> "None"]
Str(s) == [tag |-> "str", s |-> s]
Bool(b) == [tag |-> "bool", b |-> b]

\* the truth value Python gives a configuration value
Truthy(v) ==
    IF v.tag = "None" THEN FALSE
    ELSE IF v.tag = "str" THEN v.s # ""
    ELSE v.b

\* the configurations the operator sets
Configs ==
    [ urls : {Unset, Str("ldap://x")},
      base_dn : {Unset, Str("dc=x")},
      starttls : {Unset, Bool(TRUE), Bool(FALSE)},
      bind_dn : {Unset, Str("cn=admin")},
      bind_password : {Unset, Str("secret1")},
      auth_method : {Str("simple")} ]

\* required_keys of missing_config
required_keys == {"urls", "base_dn", "starttls", "bind_dn", "bind_password"}

\* missing_config(charm): {k for k in required_keys if not charm.config.get(k)}
missing_config(cfg) == { k \in required_keys : ~Truthy(cfg[k]) }

\* config_ready(charm): not missing_config(charm)
config_ready(cfg) == missing_config(cfg) = {}

\* ldap_integration_exists(charm): bool(charm.model.relations[integration_name])
ldap_integration_exists == Live(provRel) # {}

\* the keyword arguments _holistic_handler gives LdapProviderData: the url
\* list goes under `urls`, and no argument is named `url`; starttls is given
\* in the string form the constructor model takes
ConfigKwargs(cfg) ==
    [urls |-> << cfg.urls.s >>,
     base_dn |-> cfg.base_dn.s,
     starttls |-> serialize_bool(cfg.starttls.b),
     bind_dn |-> cfg.bind_dn.s,
     bind_password |-> cfg.bind_password.s,
     auth_method |-> IF cfg.auth_method.tag = "str" THEN cfg.auth_method.s ELSE None]

\* what an operation of the charm was given
Given(cfg) == [cls |-> "config", cfg |-> cfg]

\* LdapIntegratorCharm._holistic_handler, under the configuration cfg
_holistic_handler(cfg, isLeader) ==
    LET first == InOrder(Live(provRel))[1]     \* self.model.relations[name][0].id
        v == LdapProviderDataFromDict(ConfigKwargs(cfg))
        quiet(err) == /\ last' = Done("holistic", NoRel, isLeader, Given(cfg), err,
                                       << >>, NoResult)
                      /\ UNCHANGED <<secrets, nextUri, data, published>>
    IN
    /\ Step
    /\ IF ~ldap_integration_exists THEN quiet("")
       ELSE IF ~config_ready(cfg) THEN quiet("")
       ELSE IF v.err # "" THEN quiet(v.err)
       ELSE /\ \E hostOk \in (IF isLeader THEN {TRUE} ELSE BOOLEAN) :
                   update_relations_app_data(
                       v.value, first, isLeader, hostOk,
                       [op |-> "holistic", arg |-> Given(cfg),
                        pre |-> << Call("update_relations_app_data", "", first) >>])
            /\ published' = IF isLeader
                            THEN [published EXCEPT ![first] = v.value.bind_password]
                            ELSE published
    /\ UNCHANGED <<provRel, reqRel, tracked, reqIdentity>>

\* a unit status
Status(name, message, keys) == [name |-> name, message |-> message, keys |-> keys]

\* faulty variant: the integration is not looked at
collect_statuses_config_only(exists, missing) ==
    (IF missing # {}
     THEN << Status("blocked", "Missing required config: ", missing) >> ELSE << >>)
    \o << Status("active", "", {}) >>

\* the add_status calls of _on_collect_status, in order (the second message
\* ends with the missing keys joined by ', ', kept here as a set)
collect_statuses(exists, missing) ==
    (IF ~exists
     THEN << Status("blocked", "Missing integration " \o LDAP_INTEGRATION_NAME, {}) >>
     ELSE << >>)
    \o (IF missing # {}
        THEN << Status("blocked", "Missing required config: ", missing) >> ELSE << >>)
    \o << Status("active", "", {}) >>

\* the host's ranking of statuses
priority(name) ==
    IF name = "error" THEN 5 ELSE IF name = "blocked" THEN 4
    ELSE IF name = "maintenance" THEN 3 ELSE IF name = "waiting" THEN 2
    ELSE IF name = "active" THEN 1 ELSE 0

\* the host's status evaluation: the first of the added statuses that no
\* other outranks
evaluate_status(statuses) ==
    LET best == CHOOSE i \in 1..Len(statuses) :
                    /\ \A j \in 1..Len(statuses) :
                           priority(statuses[j].name) <= priority(statuses[i].name)
                    /\ \A j \in 1..(i - 1) :
                           priority(statuses[j].name) < priority(statuses[i].name)
    IN statuses[best]

\* LdapIntegratorCharm._on_collect_status followed by the host's evaluation
_on_collect_status(cfg) ==
    LET statuses == collect_statuses(ldap_integration_exists, missing_config(cfg))
    IN
    /\ Step
    /\ last' = Done("collect_status", NoRel, FALSE, Given(cfg), "",
                    [i \in 1..Len(statuses) |-> Call("add_status", statuses[i].name, 0)],
                    [kind |-> "status", value |-> evaluate_status(statuses)])
    /\ UNCHANGED <<provRel, reqRel, data, secrets, nextUri, tracked,
                   reqIdentity, published>>

\* missing_config and config_ready applied to a configuration
MissingConfig(cfg) ==
    /\ Step
    /\ last' = Done("missing_config", NoRel, FALSE, Given(cfg), "", << >>,
                    [kind |-> "set", value |-> missing_config(cfg),
                     ready |-> config_ready(cfg)])
    /\ UNCHANGED <<provRel, reqRel, data, secrets, nextUri, tracked,
                   reqIdentity, published>>

CharmNext ==
    \/ \E r \in RelIds, isLeader \in BOOLEAN : _on_ldap_relation_created(r, isLeader)
    \/ \E r \in RelIds, isLeader \in BOOLEAN : _on_relation_broken(r, isLeader)
    \/ \E cfg \in Configs, isLeader \in BOOLEAN : _holistic_handler(cfg, isLeader)
    \/ \E cfg \in Configs : _on_collect_status(cfg)
    \/ \E cfg \in Configs : MissingConfig(cfg)

CharmSpec == Init /\ [][CharmNext]_vars

----------------------------------------------------------------------------
(* Properties *)

HasCall(trace, name) == \E i \in 1..Len(trace) : trace[i].call = name
CallIndex(trace, name) == CHOOSE i \in 1..Len(trace) : trace[i].call = name
ProviderBag(r) == data[r]["provider"]
PublishedWithCredentials == last.op = "publish" /\ last.arg.cls = "LdapProviderData"

\* C1: in every reachable state no relation's provider databag has a
\* bind_password key or holds a bind password as a value.
C1_NoPlaintextPassword ==
    \A r \in RelIds :
        /\ "bind_password" \notin DOMAIN ProviderBag(r)
        /\ \A k \in DOMAIN ProviderBag(r) : ProviderBag(r)[k] \notin Passwords

\* C1 witness: the leader has published a payload with credentials and a
\* provider databag holds the secret reference.
C1_Witness ==
    /\ PublishedWithCredentials /\ last.leader /\ last.err = ""
    /\ \E r \in RelIds : "bind_password_secret" \in DOMAIN ProviderBag(r)

\* C2 (as claimed): a fetch on a live relation to which the leader has
\* published credentials returns a payload whose bind_password is the password
\* of the latest such publish.
C2_FetchReturnsLatestPassword ==
    (/\ last.op = "fetch" /\ last.rid \in RelIds
     /\ provRel[last.rid] = "live" /\ reqRel[last.rid] = "live"
     /\ published[last.rid] # "")
    => (/\ last.result.kind = "payload"
        /\ last.result.value.bind_password = published[last.rid])

\* C3 (as claimed): a payload returned by fetch has bind_password set and no
\* secret reference.
C3_FetchedHasNoSecretReference ==
    (last.op = "fetch" /\ last.result.kind = "payload")
    => (/\ last.result.value.bind_password \in Passwords
        /\ last.result.value.bind_password_secret = None)

\* C4: a publish by a provider unit that is not the leader, and the created
\* handler of a requirer unit that is not the leader, change no databag.
C4_NonLeaderWritesNothing ==
    [][ (last'.op \in {"publish", "requirer_created"} /\ ~last'.leader)
        => data' = data ]_vars

\* C4 witness: a unit that is not the leader has published while a relation
\* was live, so the write would have reached a databag.
C4_Witness ==
    /\ last.op = "publish" /\ ~last.leader /\ Live(provRel) # {}
    /\ last.err = ""

\* C5 (as claimed): a publish by a unit that is not the leader returns
\* silently and creates, changes and grants no secret.
C5_NonLeaderPublishIsNoOp ==
    (last.op = "publish" /\ ~last.leader)
    => (/\ last.err = ""
        /\ ~HasCall(last.trace, "add_secret")
        /\ ~HasCall(last.trace, "set_content")
        /\ ~HasCall(last.trace, "grant"))

\* C6: no label ever has two secrets, and every create_or_update (made by a
\* publish with credentials to a relation id) leaves exactly one secret under
\* the label, holding the given content; when a secret was already there it
\* is the same secret (same uri) afterwards.
C6_CreateOrUpdateIdempotent ==
    [][ /\ \A r \in RelIds : Cardinality(ByLabel(secrets', BIND_ACCOUNT_SECRET_LABEL(r))) <= 1
        /\ (/\ last'.op = "publish" /\ last'.arg.cls = "LdapProviderData"
            /\ last'.rid \in RelIds
            /\ (HasCall(last'.trace, "add_secret") \/ HasCall(last'.trace, "set_content")))
           => LET l == BIND_ACCOUNT_SECRET_LABEL(last'.rid)
              IN /\ Cardinality(ByLabel(secrets', l)) = 1
                 /\ \A s \in ByLabel(secrets', l) :
                        /\ s.content = [password |-> last'.arg.bind_password]
                        /\ \A old \in ByLabel(secrets, l) : old.uri = s.uri
      ]_vars

\* C6 witness: create_or_update has found the secret of the label and set its
\* content to a new password.
C6_Witness ==
    /\ PublishedWithCredentials /\ last.rid \in RelIds
    /\ HasCall(last.trace, "set_content")
    /\ \E s \in ByLabel(secrets, BIND_ACCOUNT_SECRET_LABEL(last.rid)) :
           /\ s.uri \in DOMAIN tracked
           /\ tracked[s.uri].password # s.content.password

\* C7: after the leader has handled relation_broken for a relation, no secret
\* is found under the label of that relation.
C7_BrokenRemovesSecret ==
    (last.op = "provider_broken" /\ last.leader)
    => ByLabel(secrets, BIND_ACCOUNT_SECRET_LABEL(last.rid)) = {}

\* C7 witness: the leader's broken handler has removed an existing secret.
C7_Witness ==
    /\ last.op = "provider_broken" /\ last.leader
    /\ HasCall(last.trace, "remove_all_revisions")

\* C8 (as claimed): a fetch for the id of a relation that is broken for the
\* requirer returns None.
C8_FetchAfterBrokenReturnsNone ==
    (last.op = "fetch" /\ last.rid \in RelIds /\ reqRel[last.rid] = "dead")
    => (last.err = "" /\ last.result = ReturnedNone)

\* C9 (as claimed): the leader's broken handler for a relation without a
\* secret raises nothing, leaves the secret store unchanged and creates no
\* secret.
C9_BrokenWithoutSecretIsNoOp ==
    [][ (/\ last'.op = "provider_broken" /\ last'.leader
         /\ ByLabel(secrets, BIND_ACCOUNT_SECRET_LABEL(last'.rid)) = {})
        => (/\ last'.err = ""
            /\ secrets' = secrets
            /\ ~HasCall(last'.trace, "add_secret")) ]_vars

\* C10: after the leader has published credentials to the id of a live
\* relation, the relation's provider databag holds under bind_password_secret
\* the uri of the secret of the relation's label, that secret holds the
\* published password and is granted to the relation, and the grant was made
\* before the databag was written.
C10_PublishStoresGrantedSecret ==
    (/\ PublishedWithCredentials /\ last.leader
     /\ last.rid \in RelIds /\ provRel[last.rid] = "live")
    => LET S == ByLabel(secrets, BIND_ACCOUNT_SECRET_LABEL(last.rid))
       IN /\ S # {}
          /\ \A s \in S :
                /\ "bind_password_secret" \in DOMAIN ProviderBag(last.rid)
                /\ ProviderBag(last.rid)["bind_password_secret"] = s.uri
                /\ s.content = [password |-> last.arg.bind_password]
                /\ last.rid \in s.grants
          /\ HasCall(last.trace, "grant") /\ HasCall(last.trace, "update")
          /\ CallIndex(last.trace, "grant") < CallIndex(last.trace, "update")

\* C10 witness: the leader has published credentials to a live relation id
\* for which a secret already existed.
C10_Witness ==
    /\ PublishedWithCredentials /\ last.leader /\ last.err = ""
    /\ last.rid \in RelIds /\ provRel[last.rid] = "live"
    /\ HasCall(last.trace, "set_content")

\* C11 (as claimed): a publish that names a relation id, with either kind of
\* payload, leaves the provider databag of every other relation unchanged.
C11_TargetedPublishWritesOneChannel ==
    [][ (last'.op = "publish" /\ last'.rid \in RelIds)
        => \A r \in RelIds \ {last'.rid} : data'[r]["provider"] = data[r]["provider"] ]_vars

\* the string form of a payload as a databag that was empty holds it
Canonical(p) == DatabagUpdate(EmptyBag, Stringify(model_dump(p)))

\* C12 (as claimed): after the leader has published without a relation id,
\* the provider databag of every live relation is the canonical form of the
\* published payload, whatever it held before.
C12_BroadcastGivesSameContent ==
    (last.op = "publish" /\ last.leader /\ last.rid = NoRel /\ last.err = "")
    => \A r \in Live(provRel) : ProviderBag(r) = Canonical(last.arg)

\* C13: after the created handler has run on the requirer's leader, the
\* relation's requirer databag is exactly {user, group}: the identity given at
\* construction, or else the application's name and the model's name.
C13_CreatedWritesIdentity ==
    (last.op = "requirer_created" /\ last.leader)
    => data[last.rid]["requirer"] =
           IF reqIdentity # NoPayload
           THEN [user |-> reqIdentity.user, group |-> reqIdentity.group]
           ELSE [user |-> AppName, group |-> ModelName]

\* C13 witness: the leader's created handler has written an identity that was
\* given at construction.
C13_Witness ==
    /\ last.op = "requirer_created" /\ last.leader
    /\ reqIdentity # NoPayload
    /\ HasCall(last.trace, "update")
    /\ data[last.rid]["requirer"] # EmptyBag

\* C14: the requirer's changed handler emits ldap_ready for the relation,
\* once, when the relation's provider databag is not empty, and emits nothing
\* when it is empty.
C14_ReadyIffProviderData ==
    (last.op = "requirer_changed")
    => last.trace = IF ProviderBag(last.rid) # EmptyBag
                    THEN << Call("emit", "ldap_ready", last.rid) >>
                    ELSE << >>

\* C14 witness: changed has fired on a relation to which the provider has
\* written, and ldap_ready was emitted.
C14_Witness ==
    /\ last.op = "requirer_changed"
    /\ ProviderBag(last.rid) # EmptyBag
    /\ HasCall(last.trace, "emit")

\* C15: the provider's changed handler emits exactly one ldap_requested for
\* the relation on the leader and none on any other unit.
C15_RequestedOnceOnLeader ==
    (last.op = "provider_changed")
    => last.trace = IF last.leader
                    THEN << Call("emit", "ldap_requested", last.rid) >>
                    ELSE << >>

\* C15 witness: the leader has handled relation_changed.
C15_Witness ==
    /\ last.op = "provider_changed" /\ last.leader
    /\ Len(last.trace) = 1

\* C16 (as claimed): a fetch without a relation id reads the only relation
\* when there is exactly one, and returns None without an error when there is
\* none and when there are several.
C16_FetchWithoutId ==
    (last.op = "fetch" /\ last.rid = NoRel)
    => IF Cardinality(Live(reqRel)) = 1
       THEN LET r == CHOOSE x \in Live(reqRel) : TRUE
            IN /\ ProviderBag(r) = EmptyBag => last.result = ReturnedNone
               /\ last.result.kind = "payload"
                  => /\ last.result.value.url = ProviderBag(r)["url"]
                     /\ last.result.value.bind_dn = ProviderBag(r)["bind_dn"]
       ELSE last.err = "" /\ last.result = ReturnedNone

\* C17 (as claimed): a fetch returns None when the relation is missing or its
\* provider databag is empty, and in no other case; when the databag is not
\* empty the fetch returns a payload or fails with a validation error.
C17_FetchNoneVersusInvalid ==
    (/\ last.op = "fetch"
     /\ (last.rid = NoRel => Cardinality(Live(reqRel)) <= 1))
    => LET missing == IF last.rid = NoRel THEN Live(reqRel) = {}
                                         ELSE reqRel[last.rid] # "live"
           r == IF last.rid = NoRel THEN CHOOSE x \in Live(reqRel) : TRUE ELSE last.rid
       IN IF missing \/ ProviderBag(r) = EmptyBag
          THEN last.err = "" /\ last.result = ReturnedNone
          ELSE \/ last.err = "" /\ last.result.kind = "payload"
               \/ last.err = "ValidationError" /\ last.result = NoResult

\* C18 (as claimed): a publish with credentials, here by the leader, that
\* names the id of a relation that does not exist raises nothing, writes no
\* databag and leaves the secret store unchanged.
C18_PublishToMissingChannelIsNoOp ==
    [][ (/\ last'.op = "publish" /\ last'.arg.cls = "LdapProviderData"
         /\ last'.leader
         /\ last'.rid \in RelIds /\ provRel[last'.rid] # "live")
        => (/\ last'.err = ""
            /\ data' = data
            /\ secrets' = secrets) ]_vars

\* C19 (as claimed): for every valid payload without a secret reference,
\* validating its stored string form succeeds and gives a payload equal to
\* it on every field other than bind_password.
C19_RoundTrip ==
    (last.op = "round_trip")
    => /\ last.err = "" /\ last.result.kind = "payload"
       /\ \A f \in DOMAIN last.arg \ {"bind_password"} :
              last.result.value[f] = last.arg[f]

\* C20 (as claimed): constructing a payload from a url without the prefix
\* ldap:// fails with a validation error, and constructing one from
\* ldap://host/path with the other arguments valid succeeds.
C20_UrlValidation ==
    (last.op = "construct")
    => LET kw == last.arg.kw
           prefixed == Len(kw.url) >= 7 /\ SubSeq(kw.url, 1, 7) = "ldap://"
           othersValid ==
               IF last.arg.cls = "LdapProviderBaseData" THEN TRUE
               ELSE "bind_password" \in DOMAIN kw /\ kw.auth_method = "simple"
       IN /\ ~prefixed => last.err = "ValidationError"
          /\ (kw.url = "ldap://host/path" /\ othersValid)
             => (last.err = "" /\ last.result.kind = "payload"
                 /\ last.result.value.url = kw.url)

\* C21 (as claimed): the holistic handler calls update_relations_app_data
\* exactly when a relation exists and no required option is missing, and then
\* once, without an error, with the id of the first relation.
C21_HolisticPublishesWhenReady ==
    (last.op = "holistic")
    => LET cfg == last.arg.cfg
           ready == /\ ldap_integration_exists
                    /\ \A k \in required_keys : Truthy(cfg[k])
           calls == { i \in 1..Len(last.trace) :
                        last.trace[i].call = "update_relations_app_data" }
       IN /\ (calls # {}) <=> ready
          /\ ready => /\ Cardinality(calls) = 1
                      /\ last.err = ""
                      /\ \A i \in calls : /\ last.trace[i].rid \in Live(provRel)
                                           /\ \A r \in Live(provRel) : last.trace[i].rid <= r

\* C22: after status evaluation the unit is blocked with the message
\* 'Missing integration <name>' when no relation exists, blocked when a
\* relation exists and a required option has no value (or a false one), and
\* active only when a relation exists and every required option has a value.
C22_StatusReflectsConditions ==
    (last.op = "collect_status")
    => LET cfg == last.arg.cfg
           st == last.result.value
           complete == \A k \in required_keys : Truthy(cfg[k])
       IN /\ ~ldap_integration_exists
             => /\ st.name = "blocked"
                /\ st.message = "Missing integration " \o LDAP_INTEGRATION_NAME
          /\ (ldap_integration_exists /\ ~complete) => st.name = "blocked"
          /\ st.name = "active" => (ldap_integration_exists /\ complete)
          /\ st.name \in {"blocked", "active"}

\* C22 witness: the status was evaluated with no relation and with an option
\* missing, so both blocked statuses were added before the active one.
C22_Witness ==
    /\ last.op = "collect_status"
    /\ Len(last.trace) = 3
    /\ last.result.value.message = "Missing integration " \o LDAP_INTEGRATION_NAME

\* C26 (as claimed): missing_config returns the required options to which the
\* operator gave no value, and config_ready holds whenever all five have a
\* value, a false starttls included.
C26_MissingConfigIsUnsetKeys ==
    (last.op = "missing_config")
    => LET cfg == last.arg.cfg
           unset == { k \in required_keys : cfg[k] = Unset }
       IN /\ last.result.value = unset
          /\ unset = {} => last.result.ready

\* a secret is kept under the label of a relation id only while a relation
\* with that id exists
NoOrphanSecret ==
    \A r \in RelIds :
        ByLabel(secrets, BIND_ACCOUNT_SECRET_LABEL(r)) # {} => provRel[r] = "live"

\* C23 (as claimed): no operation of the leader leaves a secret under the
\* label of a relation id that names no current relation; in particular a
\* publish after a relation's broken handler does not create its secret again.
C23_SecretLivesWithChannel ==
    [][ (last'.leader /\ NoOrphanSecret) => NoOrphanSecret' ]_vars

ProviderOps == {"publish", "provider_changed", "provider_broken"}
RequirerOps == {"requirer_created", "requirer_changed", "requirer_broken", "fetch"}

\* C24: no operation of the provider changes a requirer databag and no
\* operation of the requirer changes a provider databag.
C24_NoCrossWrites ==
    [][ /\ last'.op \in ProviderOps
           => \A r \in RelIds : data'[r]["requirer"] = data[r]["requirer"]
        /\ last'.op \in RequirerOps
           => \A r \in RelIds : data'[r]["provider"] = data[r]["provider"] ]_vars

\* C24 witness: the leader has published to a relation whose requirer databag
\* holds the identity the requirer wrote, so both roles have written.
C24_Witness ==
    /\ last.op = "publish" /\ HasCall(last.trace, "update")
    /\ \E r \in RelIds : /\ data[r]["requirer"] # EmptyBag
                          /\ data[r]["provider"] # EmptyBag

\* C25 (as claimed): a live relation's provider databag that holds a secret
\* reference still holds a non-empty one after every later publish.
C25_SecretReferencePersists ==
    [][ \A r \in RelIds :
          (/\ last'.op = "publish" /\ provRel[r] = "live"
           /\ "bind_password_secret" \in DOMAIN data[r]["provider"])
          => /\ "bind_password_secret" \in DOMAIN data'[r]["provider"]
             /\ data'[r]["provider"]["bind_password_secret"] # "" ]_vars

====
